---------------------------- MODULE Spec2Model ----------------------------
(***************************************************************************)
(* Model of sijson's ascii_writer / raw_ascii_writer                       *)
(* (include/sijson/writer.hpp).                                            *)
(*                                                                         *)
(* The sink is the sequence of bytes put to the output stream; a byte is   *)
(* its ASCII code.  The writer's state is the node stack m_nodes (bottom   *)
(* first) and the sink.  Every public call is one action; an exception     *)
(* leaves the stack and the sink as they were at the throw.                *)
(*                                                                         *)
(* The encoders of raw_ascii_writer are also run on their own, on inputs   *)
(* drawn from bounded sets (SpecString, SpecInt); fn is the encoder run in *)
(* progress, and is idle while the writer is driven by calls.              *)
(***************************************************************************)
EXTENDS Integers, Sequences, FiniteSets, TLC

VARIABLES m_nodes, out, last, pre, clean, fn

vars == <<m_nodes, out, last, pre, clean, fn>>

(***************************************************************************)
(* Bounds of the model.                                                    *)
(***************************************************************************)
MaxOut == 10
\* The longest source handed to write_string_from on its own.
MaxStrLen == 3
\* The width in bits of the integer types IntT / UintT.
IntBits == 8

(***************************************************************************)
(* Bytes the writer puts.                                                  *)
(***************************************************************************)
CH_lbrace == 123
CH_rbrace == 125
CH_lbracket == 91
CH_rbracket == 93
CH_colon == 58
CH_comma == 44
CH_quote == 34
CH_backslash == 92
CH_minus == 45
CH_zero == 48
CH_dot == 46
CH_bs == 8
CH_ff == 12
CH_nl == 10
CH_cr == 13
CH_tab == 9

STR_true == <<116, 114, 117, 101>>
STR_false == <<102, 97, 108, 115, 101>>
STR_null == <<110, 117, 108, 108>>

(***************************************************************************)
(* doc_node_t and node_info.                                               *)
(***************************************************************************)
DOCNODE_root == "root"
DOCNODE_object == "object"
DOCNODE_array == "array"
DOCNODE_key == "key"
DOCNODE_value == "value"

node_info(type) == [type |-> type, has_children |-> FALSE]

(***************************************************************************)
(* Outcomes of a call: OK, or the exception it threw.                      *)
(***************************************************************************)
OK == "ok"
EX_multi_root == "runtime_error: multiple roots"
EX_rule == "runtime_error: rule"
EX_node == "runtime_error: node mismatch"
EX_null_key == "invalid_argument: Key is null."
EX_not_finite == "invalid_argument: Value is NAN or infinity."
EX_assert == "assert(false)"

GrammarViolation == {EX_multi_root, EX_rule, EX_node}

Top(nodes) == nodes[Len(nodes)]
Front(s) == SubSeq(s, 1, Len(s) - 1)
SetTopChildren(nodes) ==
    [nodes EXCEPT ![Len(nodes)] = [@ EXCEPT !.has_children = TRUE]]

\* A writer state, and the result of a call on it.
St(nodes, o) == [nodes |-> nodes, out |-> o]
Res(nodes, o, err) == [nodes |-> nodes, out |-> o, err |-> err]
Throw(st, err) == Res(st.nodes, st.out, err)


(***************************************************************************)
(* raw_ascii_writer: the encoders.  Each returns the bytes it puts.        *)
(***************************************************************************)

\* The do-while loop of write_uint_impl / write_int_impl: units first, the
\* buffer is filled from its end backward.
RECURSIVE digits10(_, _)
digits10(value, strbuf) ==
    LET buf == <<CH_zero + (value % 10)>> \o strbuf
        v == value \div 10
    IN  IF v # 0 THEN digits10(v, buf) ELSE buf

write_uint_impl(value) == digits10(value, <<>>)

\* UintT arithmetic is modulo 2^IntBits.
RECURSIVE Pow(_, _)
Pow(b, e) == IF e = 0 THEN 1 ELSE b * Pow(b, e - 1)

UintMod == Pow(2, IntBits)
IntMin == 0 - Pow(2, IntBits - 1)
IntMax == Pow(2, IntBits - 1) - 1
UintMax == UintMod - 1

\* iutil::absu: the absolute value, taken in the unsigned type: the value
\* is converted to UintT and negated there, so the minimal value does not
\* overflow.
absu(value) ==
    IF value < 0 THEN (UintMod - (value % UintMod)) % UintMod ELSE value

\* iutil::max_chars10<T>: the buffer capacity, the most decimal digits a
\* value of the type has, and one more for the sign of a signed type.
RECURSIVE NumDigits(_)
NumDigits(n) == IF n < 10 THEN 1 ELSE 1 + NumDigits(n \div 10)

max_chars10(signed) ==
    IF signed THEN NumDigits(absu(IntMin)) + 1 ELSE NumDigits(UintMax)

\* write_int_impl that drops the sign.
write_int_impl_no_sign(value) == digits10(absu(value), <<>>)

write_int_impl(value) ==
    LET ds == digits10(absu(value), <<>>)
    IN  IF value < 0 THEN <<CH_minus>> \o ds ELSE ds

write_bool(value) == IF value THEN STR_true ELSE STR_false

write_null == STR_null

\* The switch of write_string_from on one taken byte.
\* The switch without its case for the double quote.
escape_no_quote_case(c) ==
    CASE c = CH_bs -> <<CH_backslash, 98>>
      [] c = CH_ff -> <<CH_backslash, 102>>
      [] c = CH_nl -> <<CH_backslash, 110>>
      [] c = CH_cr -> <<CH_backslash, 114>>
      [] c = CH_tab -> <<CH_backslash, 116>>
      [] c = CH_backslash -> <<CH_backslash, CH_backslash>>
      [] OTHER -> <<c>>

escape(c) ==
    CASE c = CH_bs -> <<CH_backslash, 98>>
      [] c = CH_ff -> <<CH_backslash, 102>>
      [] c = CH_nl -> <<CH_backslash, 110>>
      [] c = CH_cr -> <<CH_backslash, 114>>
      [] c = CH_tab -> <<CH_backslash, 116>>
      [] c = CH_quote -> <<CH_backslash, CH_quote>>
      [] c = CH_backslash -> <<CH_backslash, CH_backslash>>
      [] OTHER -> <<c>>

\* while (!is.end()) { c = is.take(); ... }
RECURSIVE escape_all(_)
escape_all(is) ==
    IF is = <<>> THEN <<>> ELSE escape(Head(is)) \o escape_all(Tail(is))

write_string_from(is, quoted) ==
    IF quoted THEN <<CH_quote>> \o escape_all(is) \o <<CH_quote>>
    ELSE escape_all(is)

\* A const char* argument: the null pointer, or the bytes it points to.
CStr(s) == [null |-> FALSE, s |-> s]
NullPtr == [null |-> TRUE, s |-> <<>>]

\* write_string(const char*): string or null.
write_string(value) ==
    IF ~value.null THEN write_string_from(value.s, TRUE) ELSE write_null

(***************************************************************************)
(* A floating value is NaN, an infinity, or the finite value               *)
(* (-1)^neg * num / 2^k.  The finite values of the model lie in            *)
(* [1e-5, 1e17) or are zero and have at most 17 significant decimal        *)
(* digits, where operator<< with precision max_digits10 (the default       *)
(* floatfield, %.17g) prints the exact decimal expansion in fixed          *)
(* notation with trailing zeros and a trailing '.' removed.                *)
(***************************************************************************)
Finite(neg, num, k) == [cls |-> "finite", neg |-> neg, num |-> num, k |-> k]
NaN == [cls |-> "nan", neg |-> FALSE, num |-> 0, k |-> 0]
Inf(neg) == [cls |-> "inf", neg |-> neg, num |-> 0, k |-> 0]

isfinite(value) == value.cls = "finite"

\* The n low decimal digits of v, zero padded.
RECURSIVE fixed_digits(_, _)
fixed_digits(v, n) ==
    IF n = 0 THEN <<>>
    ELSE fixed_digits(v \div 10, n - 1) \o <<CH_zero + (v % 10)>>

RECURSIVE strip_zeros(_)
strip_zeros(ds) ==
    IF ds # <<>> /\ ds[Len(ds)] = CH_zero THEN strip_zeros(Front(ds)) ELSE ds

\* sstream << value, classic locale, precision max_digits10.
format_g(value) ==
    LET den == Pow(2, value.k)
        ip == digits10(value.num \div den, <<>>)
        fp == strip_zeros(
                  fixed_digits((value.num % den) * Pow(5, value.k), value.k))
        sign == IF value.neg THEN <<CH_minus>> ELSE <<>>
    IN  sign \o ip \o (IF fp = <<>> THEN <<>> ELSE <<CH_dot>> \o fp)

\* The bytes put and the outcome: nothing is put when it throws.
write_floating_impl(value) ==
    IF ~isfinite(value) THEN [bytes |-> <<>>, err |-> EX_not_finite]
    ELSE [bytes |-> format_g(value), err |-> OK]

(***************************************************************************)
(* Values a caller hands to write_value / write_key_value, by static type, *)
(* and write_t_impl::write, the dispatch on that type.                     *)
(***************************************************************************)
VInt(i) == [t |-> "int", i |-> i]
VUint(u) == [t |-> "uint", u |-> u]
VBool(b) == [t |-> "bool", b |-> b]
VNull == [t |-> "nullptr"]
VStr(cs) == [t |-> "cstr", cs |-> cs]
VDouble(d) == [t |-> "double", d |-> d]

write(value) ==
    CASE value.t = "int" -> [bytes |-> write_int_impl(value.i), err |-> OK]
      [] value.t = "uint" -> [bytes |-> write_uint_impl(value.u), err |-> OK]
      [] value.t = "bool" -> [bytes |-> write_bool(value.b), err |-> OK]
      [] value.t = "nullptr" -> [bytes |-> write_null, err |-> OK]
      [] value.t = "cstr" -> [bytes |-> write_string(value.cs), err |-> OK]
      [] value.t = "double" -> write_floating_impl(value.d)

(***************************************************************************)
(* internal::rw_base: the node stack and its rules.                        *)
(***************************************************************************)

\* assert_rule<DOCNODE_key>: a key is legal only in an object.
\* assert_rule<DOCNODE_value | object | array>: a value is legal at the
\* root, in an array, or after a key.  OK, or the exception thrown.
assert_rule(nodes, node) ==
    IF node = DOCNODE_key
    THEN IF Top(nodes).type = DOCNODE_object THEN OK ELSE EX_rule
    ELSE IF Top(nodes).type \in {DOCNODE_root, DOCNODE_array, DOCNODE_key}
         THEN OK ELSE EX_rule

\* assert_rule<DOCNODE_key, DOCNODE_value>: a key, then its value.
assert_rule_key_value(nodes) == assert_rule(nodes, DOCNODE_key)

\* A completed child: a pending key is resolved (popped), and the parent
\* has children from now on.
end_child_node(nodes) ==
    SetTopChildren(
        IF Top(nodes).type = DOCNODE_key THEN Front(nodes) ELSE nodes)

(***************************************************************************)
(* ascii_writer.                                                           *)
(***************************************************************************)
\* write_separator with the root case after the item separator is put.
write_separator_late_throw(st) ==
    IF Top(st.nodes).has_children
    THEN IF Top(st.nodes).type = DOCNODE_root
         THEN Res(st.nodes, st.out \o <<CH_comma>>, EX_multi_root)
         ELSE Res(st.nodes, st.out \o <<CH_comma>>, OK)
    ELSE IF Top(st.nodes).type = DOCNODE_key
         THEN Res(st.nodes, st.out \o <<CH_colon>>, OK)
         ELSE Res(st.nodes, st.out, OK)

\* write_separator without the root case: a second root gets a comma.
write_separator_no_root_case(st) ==
    IF Top(st.nodes).has_children
    THEN Res(st.nodes, st.out \o <<CH_comma>>, OK)
    ELSE IF Top(st.nodes).type = DOCNODE_key
         THEN Res(st.nodes, st.out \o <<CH_colon>>, OK)
         ELSE Res(st.nodes, st.out, OK)

\* write_separator that puts the item separator before a first child too.
write_separator_always_comma(st) ==
    IF Top(st.nodes).type \in {DOCNODE_object, DOCNODE_array}
    THEN Res(st.nodes, st.out \o <<CH_comma>>, OK)
    ELSE IF Top(st.nodes).has_children THEN Throw(st, EX_multi_root)
    ELSE IF Top(st.nodes).type = DOCNODE_key
         THEN Res(st.nodes, st.out \o <<CH_colon>>, OK)
         ELSE Res(st.nodes, st.out, OK)

write_separator(st) ==
    IF Top(st.nodes).has_children
    THEN CASE Top(st.nodes).type \in {DOCNODE_object, DOCNODE_array} ->
                Res(st.nodes, st.out \o <<CH_comma>>, OK)
           [] Top(st.nodes).type = DOCNODE_root -> Throw(st, EX_multi_root)
           [] OTHER -> Throw(st, EX_assert)
    ELSE IF Top(st.nodes).type = DOCNODE_key
         THEN Res(st.nodes, st.out \o <<CH_colon>>, OK)
         ELSE Res(st.nodes, st.out, OK)

\* start_node<node>(do_start): the rule, then do_start, then the push.
\* `started` is what do_start makes of st; it is run only past the rule.
start_node(st, node, started) ==
    IF assert_rule(st.nodes, node) # OK
    THEN Throw(st, assert_rule(st.nodes, node))
    ELSE IF started.err # OK THEN started
    ELSE Res(Append(started.nodes, node_info(node)), started.out, OK)

\* end_node<node>(do_end): the top must be `node`; then do_end, the pop,
\* and the closed container is a completed child of what encloses it.
\* `ended` is what do_end makes of st; it is run only past the check.
end_node(st, node, ended) ==
    IF Top(st.nodes).type # node THEN Throw(st, EX_node)
    ELSE Res(end_child_node(Front(ended.nodes)), ended.out, OK)

\* The lambdas handed to start_node / end_node.
do_start_object(st) ==
    LET sep == write_separator(st)
    IN  IF sep.err # OK THEN sep
        ELSE Res(sep.nodes, sep.out \o <<CH_lbrace>>, OK)

do_start_array(st) ==
    LET sep == write_separator(st)
    IN  IF sep.err # OK THEN sep
        ELSE Res(sep.nodes, sep.out \o <<CH_lbracket>>, OK)

do_end_object(st) == Res(st.nodes, st.out \o <<CH_rbrace>>, OK)

\* The end_array lambda putting the object's bracket.
do_end_array_wrong_bracket(st) == Res(st.nodes, st.out \o <<CH_rbrace>>, OK)

do_end_array(st) == Res(st.nodes, st.out \o <<CH_rbracket>>, OK)

start_object(st) == start_node(st, DOCNODE_object, do_start_object(st))

start_array(st) == start_node(st, DOCNODE_array, do_start_array(st))

\* end_object closing whatever array is open.
end_object_as_array(st) == end_node(st, DOCNODE_array, do_end_object(st))

end_object(st) == end_node(st, DOCNODE_object, do_end_object(st))

\* end_array that pops whatever is on top.
end_array_unchecked(st) ==
    Res(Front(st.nodes), st.out \o <<CH_rbracket>>, OK)

end_array(st) == end_node(st, DOCNODE_array, do_end_array(st))

\* write_key_impl without its assert_rule<DOCNODE_key>().
write_key_impl_no_rule(st, key) ==
    IF key.null THEN Throw(st, EX_null_key)
    ELSE LET sep == write_separator(st)
         IN  IF sep.err # OK THEN sep
             ELSE Res(Append(sep.nodes, node_info(DOCNODE_key)),
                      sep.out \o write_string(key), OK)

write_key_impl(st, key) ==
    IF key.null THEN Throw(st, EX_null_key)
    ELSE IF assert_rule(st.nodes, DOCNODE_key) # OK
    THEN Throw(st, assert_rule(st.nodes, DOCNODE_key))
    ELSE LET sep == write_separator(st)
         IN  IF sep.err # OK THEN sep
             ELSE Res(Append(sep.nodes, node_info(DOCNODE_key)),
                      sep.out \o write_string(key), OK)

\* write_value_impl without its assert_rule<DOCNODE_value>().
write_value_impl_no_rule(st, value) ==
    LET sep == write_separator(st)
        w == write(value)
    IN  IF sep.err # OK THEN sep
        ELSE IF w.err # OK THEN Res(sep.nodes, sep.out, w.err)
        ELSE Res(end_child_node(sep.nodes), sep.out \o w.bytes, OK)

\* write_value_impl without its end_child_node().
write_value_impl_no_end_child(st, value) ==
    IF assert_rule(st.nodes, DOCNODE_value) # OK
    THEN Throw(st, assert_rule(st.nodes, DOCNODE_value))
    ELSE LET sep == write_separator(st)
             w == write(value)
         IN  IF sep.err # OK THEN sep
             ELSE IF w.err # OK THEN Res(sep.nodes, sep.out, w.err)
             ELSE Res(sep.nodes, sep.out \o w.bytes, OK)

write_value_impl(st, value) ==
    IF assert_rule(st.nodes, DOCNODE_value) # OK
    THEN Throw(st, assert_rule(st.nodes, DOCNODE_value))
    ELSE LET sep == write_separator(st)
             w == write(value)
         IN  IF sep.err # OK THEN sep
             ELSE IF w.err # OK THEN Res(sep.nodes, sep.out, w.err)
             ELSE Res(end_child_node(sep.nodes), sep.out \o w.bytes, OK)

\* write_key_value_impl with the null check after the rule.
write_key_value_impl_rule_first(st, key, value) ==
    IF assert_rule_key_value(st.nodes) # OK
    THEN Throw(st, assert_rule_key_value(st.nodes))
    ELSE IF key.null THEN Throw(st, EX_null_key)
    ELSE LET o1 == IF Top(st.nodes).has_children
                   THEN st.out \o <<CH_comma>> ELSE st.out
             o2 == o1 \o write_string(key) \o <<CH_colon>>
             w == write(value)
         IN  IF w.err # OK THEN Res(st.nodes, o2, w.err)
             ELSE Res(end_child_node(st.nodes), o2 \o w.bytes, OK)

\* write_key_value_impl that never puts the item separator.
write_key_value_impl_no_comma(st, key, value) ==
    IF key.null THEN Throw(st, EX_null_key)
    ELSE IF assert_rule_key_value(st.nodes) # OK
    THEN Throw(st, assert_rule_key_value(st.nodes))
    ELSE LET o2 == st.out \o write_string(key) \o <<CH_colon>>
             w == write(value)
         IN  IF w.err # OK THEN Res(st.nodes, o2, w.err)
             ELSE Res(end_child_node(st.nodes), o2 \o w.bytes, OK)

\* write_key_value_impl without its end_child_node().
write_key_value_impl_no_end_child(st, key, value) ==
    IF key.null THEN Throw(st, EX_null_key)
    ELSE IF assert_rule_key_value(st.nodes) # OK
    THEN Throw(st, assert_rule_key_value(st.nodes))
    ELSE LET o1 == IF Top(st.nodes).has_children
                   THEN st.out \o <<CH_comma>> ELSE st.out
             o2 == o1 \o write_string(key) \o <<CH_colon>>
             w == write(value)
         IN  IF w.err # OK THEN Res(st.nodes, o2, w.err)
             ELSE Res(st.nodes, o2 \o w.bytes, OK)

write_key_value_impl(st, key, value) ==
    IF key.null THEN Throw(st, EX_null_key)
    ELSE IF assert_rule_key_value(st.nodes) # OK
    THEN Throw(st, assert_rule_key_value(st.nodes))
    ELSE LET o1 == IF Top(st.nodes).has_children
                   THEN st.out \o <<CH_comma>> ELSE st.out
             o2 == o1 \o write_string(key) \o <<CH_colon>>
             w == write(value)
         IN  IF w.err # OK THEN Res(st.nodes, o2, w.err)
             ELSE Res(end_child_node(st.nodes), o2 \o w.bytes, OK)

parent_node == Top(m_nodes).type


(***************************************************************************)
(* The calls a client makes.  Keys and values are drawn from small sets    *)
(* that hold every kind of argument the writer tells apart.                *)
(***************************************************************************)
Keys == {NullPtr, CStr(<<>>), CStr(<<120>>)}

Values ==
    { VInt(5), VBool(TRUE), VStr(CStr(<<1>>)), VStr(NullPtr),
      VDouble(Finite(FALSE, 3, 1)), VDouble(NaN), VDouble(Inf(TRUE)) }

\* What `last` keeps of a call's arguments: whether the key was the null
\* pointer, and whether the value was a floating value that is not finite.
NoKey == "none"
NoValue == "none"
KeyArg(key) == IF key.null THEN "null" ELSE "text"
ValueArg(value) ==
    IF value.t = "double" /\ ~isfinite(value.d) THEN "not finite"
    ELSE "encodable"

cur == St(m_nodes, out)

\* No encoder is run on its own.
FnIdle == [job |-> "idle"]

\* One call: the writer moves to the call's result; `last` and `pre`
\* record the call, its outcome and the state it was made in.
Call(op, key, value, r) ==
    /\ Len(r.out) <= MaxOut
    /\ m_nodes' = r.nodes
    /\ out' = r.out
    /\ last' = [op |-> op, key |-> key, value |-> value, err |-> r.err]
    /\ pre' = cur
    /\ clean' = (clean /\ r.err = OK)
    /\ fn' = fn

StartObject == Call("start_object", NoKey, NoValue, start_object(cur))

StartArray == Call("start_array", NoKey, NoValue, start_array(cur))

EndObject == Call("end_object", NoKey, NoValue, end_object(cur))

EndArray == Call("end_array", NoKey, NoValue, end_array(cur))

WriteKey == \E key \in Keys :
    Call("write_key", KeyArg(key), NoValue, write_key_impl(cur, key))

WriteValue == \E value \in Values :
    Call("write_value", NoKey, ValueArg(value),
         write_value_impl(cur, value))

WriteKeyValue == \E key \in Keys, value \in Values :
    Call("write_key_value", KeyArg(key), ValueArg(value),
         write_key_value_impl(cur, key, value))

\* ascii_writer(stream): the root node is pushed, nothing is written.
Init ==
    /\ m_nodes = <<node_info(DOCNODE_root)>>
    /\ out = <<>>
    /\ last = [op |-> "construct", key |-> NoKey, value |-> NoValue,
               err |-> OK]
    /\ pre = St(<<node_info(DOCNODE_root)>>, <<>>)
    /\ clean = TRUE
    /\ fn = FnIdle

Next ==
    \/ StartObject
    \/ StartArray
    \/ EndObject
    \/ EndArray
    \/ WriteKey
    \/ WriteValue
    \/ WriteKeyValue

Spec == Init /\ [][Next]_vars

(***************************************************************************)
(* write_string_from on its own: the source `is` is taken byte by byte,    *)
(* `os` is what has been put, `taken` counts the calls of is.take().       *)
(***************************************************************************)
WriterIdle ==
    /\ m_nodes = <<node_info(DOCNODE_root)>>
    /\ out = <<>>
    /\ last = [op |-> "construct", key |-> NoKey, value |-> NoValue,
               err |-> OK]
    /\ pre = St(<<node_info(DOCNODE_root)>>, <<>>)
    /\ clean = TRUE

WriterUnchanged == UNCHANGED <<m_nodes, out, last, pre, clean>>

\* Source bytes: the ends of the control range, the seven bytes with an
\* escape, and two letters.
StrBytes == {0, 1, 31, CH_bs, CH_tab, CH_nl, CH_ff, CH_cr,
             CH_quote, CH_backslash, 97, 98}

StrInputs == UNION {[1..n -> StrBytes] : n \in 0..MaxStrLen}

InitString ==
    /\ WriterIdle
    /\ \E s \in StrInputs, q \in BOOLEAN :
          fn = [job |-> "string", pc |-> "open", input |-> s, quoted |-> q,
                is |-> s, os |-> <<>>, taken |-> 0]

\* if (quoted) m_stream.put('"');
StringOpen ==
    /\ fn.job = "string" /\ fn.pc = "open"
    /\ fn' = [fn EXCEPT !.pc = "loop",
                        !.os = IF fn.quoted THEN <<CH_quote>> ELSE <<>>]
    /\ WriterUnchanged

\* while (!is.end()) { char c = is.take(); switch (c) ... }
StringTake ==
    /\ fn.job = "string" /\ fn.pc = "loop" /\ fn.is # <<>>
    /\ fn' = [fn EXCEPT !.is = Tail(fn.is),
                        !.os = fn.os \o escape(Head(fn.is)),
                        !.taken = fn.taken + 1]
    /\ WriterUnchanged

\* is.end(): if (quoted) m_stream.put('"');
StringClose ==
    /\ fn.job = "string" /\ fn.pc = "loop" /\ fn.is = <<>>
    /\ fn' = [fn EXCEPT !.pc = "done",
                        !.os = fn.os \o
                               (IF fn.quoted THEN <<CH_quote>> ELSE <<>>)]
    /\ WriterUnchanged

NextString ==
    \/ StringOpen
    \/ StringTake
    \/ StringClose

SpecString == InitString /\ [][NextString]_vars

(***************************************************************************)
(* write_int_impl / write_uint_impl on their own, on every value of the    *)
(* IntBits-wide signed and unsigned types.                                 *)
(***************************************************************************)
InitInt ==
    /\ WriterIdle
    /\ \/ \E v \in IntMin..IntMax :
             fn = [job |-> "int", pc |-> "start", signed |-> TRUE,
                   value |-> v, text |-> <<>>]
       \/ \E v \in 0..UintMax :
             fn = [job |-> "int", pc |-> "start", signed |-> FALSE,
                   value |-> v, text |-> <<>>]

WriteInt ==
    /\ fn.job = "int" /\ fn.pc = "start" /\ fn.signed
    /\ fn' = [fn EXCEPT !.pc = "done", !.text = write_int_impl(fn.value)]
    /\ WriterUnchanged

WriteUint ==
    /\ fn.job = "int" /\ fn.pc = "start" /\ ~fn.signed
    /\ fn' = [fn EXCEPT !.pc = "done", !.text = write_uint_impl(fn.value)]
    /\ WriterUnchanged

NextInt ==
    \/ WriteInt
    \/ WriteUint

SpecInt == InitInt /\ [][NextInt]_vars


(***************************************************************************)
(* The JSON grammar (RFC 8259) as a pushdown recogniser over bytes, used   *)
(* to state what the emitted text must be.  A configuration is the stack   *)
(* of open containers and a mode:                                          *)
(*   V  a value must start         V]  a value or ']' (after '[')          *)
(*   K  a key must start           K}  a key or '}' (after '{')            *)
(*   C  ':' must follow a key      E   a value has ended                   *)
(*   S, KS  inside a string / key  SE, KSE  after a backslash in it        *)
(*   SU, KSU  inside \uXXXX        L   inside true / false / null          *)
(*   N-, N0, NI, N., NF, Ne, Nes, NE  inside a number                      *)
(***************************************************************************)
\* strict: a raw control character inside a string is an error (RFC 8259);
\* when it is off, only the structure of the text is judged.
JsonInit ==
    [stk |-> <<>>, mode |-> "V", lit |-> <<>>, hex |-> 0, strict |-> TRUE]

JsonStructureInit == [JsonInit EXCEPT !.strict = FALSE]

JsonWs == {32, 9, 10, 13}
JsonDigits == 48..57
JsonHex == (48..57) \cup (65..70) \cup (97..102)
JsonEscapes == {34, 92, 47, 98, 102, 110, 114, 116}
JsonNumberEnd == {"N0", "NI", "NF", "NE"}

JsonGo(s, m) == [s EXCEPT !.mode = m]
JsonBad(s) == JsonGo(s, "bad")
JsonPop(s) == [s EXCEPT !.stk = Front(s.stk), !.mode = "E"]

\* c starts a value.
JsonStartValue(s, c) ==
    CASE c = 123 -> [s EXCEPT !.stk = Append(s.stk, "O"), !.mode = "K}"]
      [] c = 91 -> [s EXCEPT !.stk = Append(s.stk, "A"), !.mode = "V]"]
      [] c = 34 -> JsonGo(s, "S")
      [] c = 45 -> JsonGo(s, "N-")
      [] c = 48 -> JsonGo(s, "N0")
      [] c \in 49..57 -> JsonGo(s, "NI")
      [] c = 116 -> [s EXCEPT !.mode = "L", !.lit = Tail(STR_true)]
      [] c = 102 -> [s EXCEPT !.mode = "L", !.lit = Tail(STR_false)]
      [] c = 110 -> [s EXCEPT !.mode = "L", !.lit = Tail(STR_null)]
      [] c \in JsonWs -> s
      [] OTHER -> JsonBad(s)

\* c follows a complete value.
JsonAfterValue(s, c) ==
    IF c \in JsonWs THEN JsonGo(s, "E")
    ELSE IF s.stk = <<>> THEN JsonBad(s)
    ELSE LET top == s.stk[Len(s.stk)]
         IN  CASE c = 44 /\ top = "O" -> JsonGo(s, "K")
               [] c = 44 /\ top = "A" -> JsonGo(s, "V")
               [] c = 125 /\ top = "O" -> JsonPop(s)
               [] c = 93 /\ top = "A" -> JsonPop(s)
               [] OTHER -> JsonBad(s)

JsonStep(s, c) ==
    LET m == s.mode
    IN  CASE m = "bad" -> s
          [] m = "V" -> JsonStartValue(s, c)
          [] m = "V]" -> IF c = 93 THEN JsonPop(s) ELSE JsonStartValue(s, c)
          [] m = "K}" -> IF c = 125 THEN JsonPop(s)
                         ELSE IF c = 34 THEN JsonGo(s, "KS")
                         ELSE IF c \in JsonWs THEN s ELSE JsonBad(s)
          [] m = "K" -> IF c = 34 THEN JsonGo(s, "KS")
                        ELSE IF c \in JsonWs THEN s ELSE JsonBad(s)
          [] m = "C" -> IF c = 58 THEN JsonGo(s, "V")
                        ELSE IF c \in JsonWs THEN s ELSE JsonBad(s)
          [] m = "E" -> JsonAfterValue(s, c)
          [] m \in {"S", "KS"} ->
                IF c = 34 THEN JsonGo(s, IF m = "S" THEN "E" ELSE "C")
                ELSE IF c = 92 THEN JsonGo(s, IF m = "S" THEN "SE" ELSE "KSE")
                ELSE IF c < 32 /\ s.strict THEN JsonBad(s) ELSE s
          [] m \in {"SE", "KSE"} ->
                IF c \in JsonEscapes
                THEN JsonGo(s, IF m = "SE" THEN "S" ELSE "KS")
                ELSE IF c = 117
                THEN [s EXCEPT !.mode = IF m = "SE" THEN "SU" ELSE "KSU",
                               !.hex = 4]
                ELSE JsonBad(s)
          [] m \in {"SU", "KSU"} ->
                IF c \notin JsonHex THEN JsonBad(s)
                ELSE IF s.hex > 1 THEN [s EXCEPT !.hex = @ - 1]
                ELSE [s EXCEPT !.hex = 0,
                               !.mode = IF m = "SU" THEN "S" ELSE "KS"]
          [] m = "L" ->
                IF c # Head(s.lit) THEN JsonBad(s)
                ELSE IF Len(s.lit) = 1 THEN [s EXCEPT !.mode = "E", !.lit = <<>>]
                ELSE [s EXCEPT !.lit = Tail(@)]
          [] m = "N-" -> IF c = 48 THEN JsonGo(s, "N0")
                         ELSE IF c \in 49..57 THEN JsonGo(s, "NI")
                         ELSE JsonBad(s)
          [] m = "N0" -> IF c = 46 THEN JsonGo(s, "N.")
                         ELSE IF c \in {101, 69} THEN JsonGo(s, "Ne")
                         ELSE JsonAfterValue(s, c)
          [] m = "NI" -> IF c \in JsonDigits THEN s
                         ELSE IF c = 46 THEN JsonGo(s, "N.")
                         ELSE IF c \in {101, 69} THEN JsonGo(s, "Ne")
                         ELSE JsonAfterValue(s, c)
          [] m = "N." -> IF c \in JsonDigits THEN JsonGo(s, "NF")
                         ELSE JsonBad(s)
          [] m = "NF" -> IF c \in JsonDigits THEN s
                         ELSE IF c \in {101, 69} THEN JsonGo(s, "Ne")
                         ELSE JsonAfterValue(s, c)
          [] m = "Ne" -> IF c \in {43, 45} THEN JsonGo(s, "Nes")
                         ELSE IF c \in JsonDigits THEN JsonGo(s, "NE")
                         ELSE JsonBad(s)
          [] m = "Nes" -> IF c \in JsonDigits THEN JsonGo(s, "NE")
                          ELSE JsonBad(s)
          [] m = "NE" -> IF c \in JsonDigits THEN s
                         ELSE JsonAfterValue(s, c)

RECURSIVE JsonRun(_, _)
JsonRun(s, bytes) ==
    IF bytes = <<>> THEN s ELSE JsonRun(JsonStep(s, Head(bytes)), Tail(bytes))

\* bytes is one complete JSON value and nothing else.
IsJson(bytes) ==
    LET s == JsonRun(JsonInit, bytes)
    IN  s.stk = <<>> /\ s.mode \in ({"E"} \cup JsonNumberEnd)


(***************************************************************************)
(* Properties.                                                             *)
(***************************************************************************)
Called(ops) == last.op \in ops
PreTop == Top(pre.nodes)

\* The document is complete: only the root is left, and it has its child.
DoneStack == <<[type |-> DOCNODE_root, has_children |-> TRUE]>>

ValueCalls == {"write_value", "start_object", "start_array"}

\* A value may start here: at a root without a child, in an array, or
\* after a pending key.
ValueLegal(nodes) ==
    \/ Top(nodes).type = DOCNODE_root /\ ~Top(nodes).has_children
    \/ Top(nodes).type = DOCNODE_array
    \/ Top(nodes).type = DOCNODE_key

\* C1: when every call so far has returned without error and the document
\* is complete, the sink holds one syntactically valid JSON value.
C1_AcceptedOutputIsJson == (clean /\ m_nodes = DoneStack) => IsJson(out)

\* C2: a call that fails with a grammar violation has written no byte: the
\* sink after it is the sink before it.
C2_RejectedCallWritesNothing ==
    last.err \in GrammarViolation => out = pre.out

C2_Witness ==
    /\ Called({"start_array"})
    /\ last.err = EX_multi_root
    /\ pre.out # <<>>

\* C3 as stated: once the document is complete, every further call fails
\* with a grammar violation.
C3_Original ==
    (~Called({"construct"}) /\ pre.nodes = DoneStack)
        => last.err \in GrammarViolation

\* C3: once the document is complete, every further call fails and changes
\* neither the stack nor the sink: write_key and write_key_value with a
\* null key fail with the null-key error, every other call with a grammar
\* violation, and a second write_value, start_object or start_array with
\* the multiple-roots violation.
C3_CompleteDocumentRejectsCalls ==
    (~Called({"construct"}) /\ pre.nodes = DoneStack) =>
        /\ m_nodes = pre.nodes
        /\ out = pre.out
        /\ IF last.key = "null" THEN last.err = EX_null_key
           ELSE last.err \in GrammarViolation
        /\ Called(ValueCalls) => last.err = EX_multi_root

C3_Witness ==
    /\ Called({"write_value"})
    /\ pre.nodes = DoneStack
    /\ last.err = EX_multi_root

\* C4: write_key with a key that is not null succeeds only when the top of
\* the stack is an object; on a root, an array or a pending key it fails
\* with a grammar violation and pushes nothing.
C4_KeyOnlyInObject ==
    (Called({"write_key"}) /\ last.key = "text") =>
        /\ last.err = OK => PreTop.type = DOCNODE_object
        /\ PreTop.type # DOCNODE_object =>
              last.err \in GrammarViolation /\ m_nodes = pre.nodes

C4_Witness ==
    /\ Called({"write_key"})
    /\ last.key = "text"
    /\ PreTop.type = DOCNODE_key
    /\ last.err \in GrammarViolation

\* C5: write_value, start_object and start_array fail with a grammar
\* violation when the top of the stack is an object with no key pending;
\* they pass the grammar exactly at a root without a child, in an array,
\* and after a pending key.
C5_ValueNeedsKeyInObject ==
    Called(ValueCalls) =>
        /\ PreTop.type = DOCNODE_object => last.err \in GrammarViolation
        /\ last.err \notin GrammarViolation <=> ValueLegal(pre.nodes)

C5_Witness ==
    /\ Called({"write_value"})
    /\ PreTop.type = DOCNODE_object
    /\ PreTop.has_children
    /\ last.err \in GrammarViolation

\* C6: end_object succeeds only on an object and end_array only on an
\* array; on any other top they fail with a grammar violation, pop nothing
\* and write nothing.
C6_EndMatchesOpenContainer ==
    /\ Called({"end_object"}) =>
          /\ last.err = OK => PreTop.type = DOCNODE_object
          /\ PreTop.type # DOCNODE_object =>
                /\ last.err \in GrammarViolation
                /\ m_nodes = pre.nodes
                /\ out = pre.out
    /\ Called({"end_array"}) =>
          /\ last.err = OK => PreTop.type = DOCNODE_array
          /\ PreTop.type # DOCNODE_array =>
                /\ last.err \in GrammarViolation
                /\ m_nodes = pre.nodes
                /\ out = pre.out

C6_Witness ==
    /\ Called({"end_object"})
    /\ PreTop.type = DOCNODE_array
    /\ last.err \in GrammarViolation

\* C7: write_key and write_key_value with a null key fail with the
\* null-key error in every state, also where the call breaks the grammar,
\* and leave the sink and the stack as they were.
C7_NullKeyRejectedFirst ==
    (Called({"write_key", "write_key_value"}) /\ last.key = "null") =>
        /\ last.err = EX_null_key
        /\ out = pre.out
        /\ m_nodes = pre.nodes

C7_Witness ==
    /\ Called({"write_key_value"})
    /\ last.key = "null"
    /\ PreTop.type = DOCNODE_array
    /\ last.err = EX_null_key

\* C8: a NaN or infinite floating value written where a value is legal
\* (write_value at a root, in an array or after a key; write_key_value in
\* an object) fails with the not-finite error and writes no byte.
C8_NotFiniteWritesNothing ==
    /\ (Called({"write_value"}) /\ last.value = "not finite"
            /\ ValueLegal(pre.nodes)) =>
          last.err = EX_not_finite /\ out = pre.out
    /\ (Called({"write_key_value"}) /\ last.value = "not finite"
            /\ last.key = "text" /\ PreTop.type = DOCNODE_object) =>
          last.err = EX_not_finite /\ out = pre.out

\* C9: write_key_value either succeeds or fails before any byte is written.
C9_KeyValueAtomic ==
    Called({"write_key_value"}) => (last.err = OK \/ out = pre.out)

\* write_key(key) immediately followed by write_value(value).
write_key_then_value(st, key, value) ==
    LET k == write_key_impl(st, key)
    IN  IF k.err # OK THEN k
        ELSE write_value_impl(St(k.nodes, k.out), value)

\* C10: in every reachable state, for every key and value, when write_key
\* followed by write_value succeeds, write_key_value ends in the same stack
\* and the same sink: a ',' iff the object already has a member, the quoted
\* key, ':', the value, and the object on top with has_children set; and
\* when the two calls fail, write_key_value fails.
C10_KeyValueIsKeyThenValue ==
    \A key \in Keys, value \in Values :
        LET two == write_key_then_value(cur, key, value)
            fused == write_key_value_impl(cur, key, value)
        IN  /\ two.err = OK =>
                /\ fused = two
                /\ fused.out =
                      out \o (IF Top(m_nodes).has_children
                              THEN <<CH_comma>> ELSE <<>>)
                          \o write_string(key) \o <<CH_colon>>
                          \o write(value).bytes
                /\ fused.nodes = SetTopChildren(m_nodes)
                /\ Top(fused.nodes).type = DOCNODE_object
            /\ two.err # OK => fused.err # OK

C10_Witness ==
    /\ Called({"write_key_value"})
    /\ last.err = OK
    /\ PreTop.type = DOCNODE_object
    /\ PreTop.has_children


\* The bytes the last call put: the sink only grows.
Emitted == SubSeq(out, Len(pre.out) + 1, Len(out))
Succeeded(ops) == Called(ops) /\ last.err = OK

Separators == {CH_comma, CH_colon}
Closers == {CH_rbrace, CH_rbracket}
Openers == {CH_lbrace, CH_lbracket}

\* The writer as constructed, and the two scenarios of the specification.
Constructed == St(<<node_info(DOCNODE_root)>>, <<>>)

ArrayScenario ==
    LET a == start_array(Constructed)
        b == write_value_impl(St(a.nodes, a.out), VInt(1))
        c == write_value_impl(St(b.nodes, b.out), VInt(2))
    IN  end_array(St(c.nodes, c.out))

ObjectScenario ==
    LET a == start_object(Constructed)
        b == write_key_impl(St(a.nodes, a.out), CStr(<<120>>))
        c == write_value_impl(St(b.nodes, b.out), VInt(5))
    IN  end_object(St(c.nodes, c.out))

\* C11: a successful call that emits a child of an object or an array puts
\* exactly one ',' first iff that container already has children, and none
\* otherwise; a value that resolves a pending key puts exactly one ':' and
\* no ','; end_object and end_array put their bracket only; a root value
\* gets no separator.  start_array, write_value(1), write_value(2),
\* end_array gives [1,2]; start_object, write_key("x"), write_value(5),
\* end_object gives {"x":5}; no accepted sequence has a comma right after
\* an opening bracket, right before a closing one, doubled, or leading.
C11_SeparatorEmission ==
    /\ out = pre.out \o Emitted
    /\ (Succeeded({"write_key", "write_key_value"} \cup ValueCalls)
            /\ PreTop.type \in {DOCNODE_object, DOCNODE_array}) =>
          IF PreTop.has_children
          THEN Emitted[1] = CH_comma /\ Emitted[2] \notin Separators
          ELSE Emitted[1] \notin Separators
    /\ (Succeeded(ValueCalls) /\ PreTop.type = DOCNODE_key) =>
          Emitted[1] = CH_colon /\ Emitted[2] \notin Separators
    /\ (Succeeded(ValueCalls) /\ PreTop.type = DOCNODE_root) =>
          Emitted[1] \notin Separators
    /\ Succeeded({"end_object"}) => Emitted = <<CH_rbrace>>
    /\ Succeeded({"end_array"}) => Emitted = <<CH_rbracket>>
    /\ clean =>
          /\ out # <<>> => out[1] # CH_comma
          /\ \A i \in 1..(Len(out) - 1) :
                /\ out[i] \in Openers => out[i + 1] # CH_comma
                /\ out[i] = CH_comma =>
                      out[i + 1] \notin (Closers \cup {CH_comma})
    /\ ArrayScenario = Res(DoneStack, <<91, 49, 44, 50, 93>>, OK)
    /\ ObjectScenario = Res(DoneStack, <<123, 34, 120, 34, 58, 53, 125>>, OK)

C11_Witness ==
    /\ clean
    /\ Succeeded({"end_array"})
    /\ out = <<CH_lbracket, 53, CH_comma, 53, CH_rbracket>>

\* The innermost container that is open: the topmost object or array.
RECURSIVE OpenContainer(_)
OpenContainer(nodes) ==
    IF nodes = <<>> THEN "none"
    ELSE IF Top(nodes).type \in {DOCNODE_object, DOCNODE_array}
    THEN Top(nodes).type
    ELSE OpenContainer(Front(nodes))

\* C12: while every call has succeeded and a container is open,
\* parent_node() reports the innermost open container (the object or array
\* opened last and not yet closed), also after write_key, write_value and
\* write_key_value.
C12_ParentIsOpenContainer ==
    (clean /\ OpenContainer(m_nodes) # "none") =>
        parent_node = OpenContainer(m_nodes)


(***************************************************************************)
(* Properties of the encoders.                                             *)
(***************************************************************************)
StringRun == fn.job = "string"
StringDone == StringRun /\ fn.pc = "done"

\* The letter of the two-character escape of a byte that has one.
EscapeLetter ==
    (CH_bs :> 98) @@ (CH_ff :> 102) @@ (CH_nl :> 110) @@ (CH_cr :> 114)
        @@ (CH_tab :> 116) @@ (CH_quote :> CH_quote)
        @@ (CH_backslash :> CH_backslash)

\* The escaped form of the first n bytes of s, byte by byte in order.
RECURSIVE EscapedPrefix(_, _)
EscapedPrefix(s, n) ==
    IF n = 0 THEN <<>>
    ELSE EscapedPrefix(s, n - 1) \o
         (IF s[n] \in DOMAIN EscapeLetter
          THEN <<CH_backslash, EscapeLetter[s[n]]>> ELSE <<s[n]>>)

QuoteIf(q) == IF q THEN <<CH_quote>> ELSE <<>>

\* C13: write_string_from ends on every source; what it puts is decided by
\* the source bytes and the quoted flag alone: an opening '"' iff quoted,
\* then for each source byte in order its two-character escape (backspace,
\* form feed, newline, carriage return, tab, double quote, backslash) or
\* the byte itself, then a closing '"' iff quoted; each source byte is
\* taken exactly once, and the source is at its end when the writer
\* returns.  a"b quoted gives "a\"b" and the empty source quoted gives "".
C13_StringEscaping ==
    StringRun =>
        /\ fn.pc # "done" => ENABLED NextString
        /\ fn.is = SubSeq(fn.input, fn.taken + 1, Len(fn.input))
        /\ fn.pc = "loop" =>
              fn.os = QuoteIf(fn.quoted) \o EscapedPrefix(fn.input, fn.taken)
        /\ fn.pc = "done" =>
              /\ fn.is = <<>>
              /\ fn.taken = Len(fn.input)
              /\ fn.os = QuoteIf(fn.quoted)
                            \o EscapedPrefix(fn.input, Len(fn.input))
                            \o QuoteIf(fn.quoted)
              /\ fn.os = write_string_from(fn.input, fn.quoted)
              /\ (fn.input = <<97, CH_quote, 98>> /\ fn.quoted) =>
                    fn.os = <<34, 97, 92, 34, 98, 34>>
              /\ (fn.input = <<>> /\ fn.quoted) => fn.os = <<34, 34>>

C13_Witness ==
    /\ StringDone
    /\ fn.quoted
    /\ fn.input = <<97, CH_quote, 98>>
    /\ fn.os = <<34, 97, 92, 34, 98, 34>>

\* C14: a string written as a value or key (quoted) holds no raw control
\* character: no byte of the output is in the range 0x00-0x1F.
C14_NoRawControlCharacter ==
    (StringDone /\ fn.quoted) => \A i \in 1..Len(fn.os) : fn.os[i] >= 32

IntDone == fn.job = "int" /\ fn.pc = "done"

\* The number a sequence of decimal digits denotes.
RECURSIVE DecimalValue(_)
DecimalValue(ds) ==
    IF ds = <<>> THEN 0
    ELSE 10 * DecimalValue(Front(ds)) + (ds[Len(ds)] - CH_zero)

IsDigits(ds) ==
    /\ ds # <<>>
    /\ \A i \in 1..Len(ds) : ds[i] \in CH_zero..(CH_zero + 9)

\* No leading zeros: zero is the single character '0'.
Canonical(ds) == IsDigits(ds) /\ (Len(ds) > 1 => ds[1] # CH_zero)

\* C15: for every value of the IntBits-bit signed and unsigned types the
\* text written is the canonical decimal text of the value: digits that
\* denote its magnitude, no leading zeros, zero as the single '0', one
\* leading '-' iff the value is negative; for the minimal value the
\* magnitude 2^(IntBits-1) is taken without overflow; and the text fits the
\* buffer of max_chars10 characters.
C15_CanonicalDecimal ==
    IntDone =>
        LET neg == fn.signed /\ fn.value < 0
            ds == IF neg THEN Tail(fn.text) ELSE fn.text
        IN  /\ neg => fn.text[1] = CH_minus
            /\ Canonical(ds)
            /\ DecimalValue(ds) = (IF neg THEN 0 - fn.value ELSE fn.value)
            /\ fn.value = 0 => fn.text = <<CH_zero>>
            /\ (fn.signed /\ fn.value = IntMin) =>
                  /\ absu(fn.value) = Pow(2, IntBits - 1)
                  /\ fn.text = <<CH_minus>> \o write_uint_impl(0 - IntMin)
            /\ Len(fn.text) <= max_chars10(fn.signed)

C15_Witness ==
    /\ IntDone
    /\ fn.signed
    /\ fn.value = IntMin
    /\ fn.text[1] = CH_minus
    /\ Len(fn.text) = max_chars10(TRUE)


(***************************************************************************)
(* Properties of the node stack.                                           *)
(***************************************************************************)
EndCalls == {"end_object", "end_array"}
StartCalls == {"start_object", "start_array"}

\* C17: after any sequence of calls, successful or failed, the stack is
\* not empty, its bottom node is the root, and the root is nowhere else;
\* end_object and end_array on the root fail and pop nothing.
C17_RootAtBottom ==
    /\ Len(m_nodes) >= 1
    /\ m_nodes[1].type = DOCNODE_root
    /\ \A i \in 2..Len(m_nodes) : m_nodes[i].type # DOCNODE_root
    /\ (Called(EndCalls) /\ PreTop.type = DOCNODE_root) =>
          last.err \in GrammarViolation /\ m_nodes = pre.nodes

C17_Witness ==
    /\ Called({"end_array"})
    /\ pre.nodes = DoneStack
    /\ last.err \in GrammarViolation
    /\ m_nodes = DoneStack
    /\ ~clean

KeyBlockedCalls == {"end_object", "end_array", "write_key", "write_key_value"}

\* C18 as stated: while a key is pending, end_object, end_array, write_key
\* and write_key_value all fail with a grammar violation.
C18_Original ==
    (Called(KeyBlockedCalls) /\ PreTop.type = DOCNODE_key) =>
        last.err \in GrammarViolation

\* C18: while a key is pending, end_object, end_array, write_key and
\* write_key_value fail and change nothing: with the null-key error when
\* the key is null, with a grammar violation otherwise.  A key node sits
\* directly on its object.  When the key's value completes (a scalar
\* written, or a container opened on the key and later closed) the key
\* node is gone, the object is on top with has_children set, and the next
\* write_key puts ',' before the key.
C18_PendingKeyResolved ==
    /\ (Called(KeyBlockedCalls) /\ PreTop.type = DOCNODE_key) =>
          /\ IF last.key = "null" THEN last.err = EX_null_key
             ELSE last.err \in GrammarViolation
          /\ m_nodes = pre.nodes
          /\ out = pre.out
    /\ \A i \in 1..Len(m_nodes) :
          m_nodes[i].type = DOCNODE_key =>
              i > 1 /\ m_nodes[i - 1].type = DOCNODE_object
    /\ (Succeeded({"write_value"}) /\ PreTop.type = DOCNODE_key) =>
          /\ m_nodes = SetTopChildren(Front(pre.nodes))
          /\ Top(m_nodes).type = DOCNODE_object
    /\ (Succeeded(StartCalls) /\ PreTop.type = DOCNODE_key) =>
          /\ Front(m_nodes) = pre.nodes
          /\ Top(m_nodes).type \in {DOCNODE_object, DOCNODE_array}
    /\ (Succeeded(EndCalls) /\ Len(pre.nodes) >= 3
            /\ pre.nodes[Len(pre.nodes) - 1].type = DOCNODE_key) =>
          /\ m_nodes = SetTopChildren(SubSeq(pre.nodes, 1, Len(pre.nodes) - 2))
          /\ Top(m_nodes).type = DOCNODE_object
    /\ (Top(m_nodes).type = DOCNODE_object /\ Top(m_nodes).has_children) =>
          \A key \in Keys :
              ~key.null =>
                  write_key_impl(cur, key) =
                      Res(Append(m_nodes, node_info(DOCNODE_key)),
                          out \o <<CH_comma>> \o write_string(key), OK)

C18_Witness ==
    /\ clean
    /\ Succeeded({"write_key"})
    /\ PreTop.has_children
    /\ pre.out[Len(pre.out)] = CH_rbracket
    /\ Emitted[1] = CH_comma

\* C19: a root, object or array node has has_children false when it is
\* pushed; a successful write_value, write_key_value, end_object or
\* end_array leaves the node then on top (the parent of the completed
\* child) with has_children true; no call, successful or failed, sets it
\* back to false on a node that stays on the stack; write_key leaves its
\* object as it was; a key node never has has_children true.
C19_HasChildren ==
    /\ Succeeded(StartCalls \cup {"write_key"}) =>
          /\ ~Top(m_nodes).has_children
          /\ Front(m_nodes) = pre.nodes
    /\ Succeeded({"write_value", "write_key_value"} \cup EndCalls) =>
          /\ Top(m_nodes).has_children
          /\ Top(m_nodes).type # DOCNODE_key
          /\ Front(m_nodes) = SubSeq(pre.nodes, 1, Len(m_nodes) - 1)
    /\ \A i \in 1..Len(m_nodes) :
          /\ (i <= Len(pre.nodes) /\ pre.nodes[i].has_children) =>
                m_nodes[i].has_children
          /\ i <= Len(pre.nodes) => m_nodes[i].type = pre.nodes[i].type
          /\ m_nodes[i].type = DOCNODE_key => ~m_nodes[i].has_children
    /\ last.op = "construct" => ~Top(m_nodes).has_children

C19_Witness ==
    /\ Succeeded({"write_key_value"})
    /\ ~PreTop.has_children
    /\ Top(m_nodes).has_children
    /\ Top(m_nodes).type = DOCNODE_object

\* The open containers of the stack, bottom first, as the recogniser
\* names them.
RECURSIVE Containers(_)
Containers(nodes) ==
    IF nodes = <<>> THEN <<>>
    ELSE Containers(Front(nodes)) \o
         (CASE Top(nodes).type = DOCNODE_object -> <<"O">>
            [] Top(nodes).type = DOCNODE_array -> <<"A">>
            [] OTHER -> <<>>)

JsonValueEnded == {"E"} \cup JsonNumberEnd

\* C20: while every call has succeeded, the sink is a prefix of a JSON
\* text in structure (brackets nested and matched, a key then ':' then one
\* value, members separated by single commas; the bytes inside strings are
\* not judged): the brackets left open are, in order, the object and array
\* nodes of the stack; a key node is on top exactly when a key has been
\* written and awaits its ':'; the top has children exactly when a value
\* has just ended; and the sink is one complete value exactly when the
\* stack is the root alone with has_children set.
C20_OutputMatchesStack ==
    clean =>
        LET s == JsonRun(JsonStructureInit, out)
        IN  /\ s.mode # "bad"
            /\ s.stk = Containers(m_nodes)
            /\ (Top(m_nodes).type = DOCNODE_key) <=> (s.mode = "C")
            /\ Top(m_nodes).has_children <=> (s.mode \in JsonValueEnded)
            /\ (m_nodes = DoneStack) <=>
                  (s.stk = <<>> /\ s.mode \in JsonValueEnded)

C20_Witness ==
    /\ clean
    /\ m_nodes = DoneStack
    /\ out[1] = CH_lbrace
    /\ \E i \in 1..Len(out) : out[i] = CH_lbracket
    /\ \E i \in 1..Len(out) : out[i] = CH_comma

=============================================================================
